---- MODULE Spec2Model ----
(***************************************************************************)
(* The forum view-model of src/src/components/forum/CommunityForum.tsx:    *)
(* the posts cache and the per-post comment buckets, the realtime merge    *)
(* handlers, the filter / sort / paginate pipeline and the comment tree    *)
(* builder.                                                                *)
(*                                                                         *)
(* Strings whose characters matter (title, body, tags, query) are          *)
(* sequences of one-character strings over a small alphabet with upper-    *)
(* and lower-case letters; identifiers and timestamps are atomic strings.  *)
(***************************************************************************)
EXTENDS Integers, Sequences, FiniteSets, TLC

VARIABLES
    posts,          \* useState<Post[]>                      (line 45)
    filteredPosts,  \* useState<Post[]>                      (line 46)
    comments,       \* useState<{[key: string]: Comment[]}>  (line 47)
    searchQuery,    \* useState("")                          (line 57)
    sortBy,         \* useState<SortOption>('newest')        (line 58)
    filterBy,       \* useState<FilterOption>('all')         (line 59)
    currentPage,    \* useState(1)                           (line 60)
    user,           \* useState<any>(null)                   (line 62)
    selectedPost,   \* useState<string | null>(null)         (line 48)
    replyingTo,     \* useState<string | null>(null)         (line 49)
    newPost,        \* useState({title, content, tags, is_anonymous}) (line 50)
    newComment,     \* useState("")                          (line 56)
    store,          \* the tables public.posts and public.comments
    calls,          \* the asynchronous handlers suspended at an await
    events,         \* push events the store has sent, not yet delivered
    notice,         \* the last toast raised
    isLoading,      \* useState(true)                        (line 61)
    lastOp          \* history: the last input the component handled

\* the state of the forms and of the exchange with the store
sessionVars == <<selectedPost, replyingTo, newPost, newComment, store, calls,
                 events, notice, isLoading>>

vars == <<posts, filteredPosts, comments, searchQuery, sortBy, filterBy,
          currentPage, user, sessionVars, lastOp>>

----------------------------------------------------------------------------
(* Bounds of the model *)

\* longest posts collection drawn for the pipeline
MaxPosts == 3
\* most comments the store holds: when a comment bucket is first fetched,
\* and before the session creates no more
MaxComments == 3
\* length up to which push events extend a small cache (the posts list, or
\* one comment bucket)
MaxCache == 4
\* suspended handlers and undelivered events up to which the user presses
\* the like button once more
MaxCalls == 2
\* rows the two tables of the store may hold together before the session
\* creates no more
MaxStored == 3
\* like count up to which the like button is pressed
MaxLikes == 2
\* posts beyond two full pages in the longest fetched list
MaxExtra == 1
\* copies of one pushed post the long posts cache may come to hold
MaxInserted == 1

\* const POSTS_PER_PAGE = 10
POSTS_PER_PAGE == 10

----------------------------------------------------------------------------
(* Values *)

\* user === null
Null == [null |-> TRUE]

Users == {[id |-> "u1"], [id |-> "u2"]}

SortOption == {"newest", "oldest", "most_liked", "most_commented"}
FilterOption == {"all", "my_posts", "anonymous"}

\* payload.old of an event that carries no old row: {}
EmptyObj == [id |-> "undefined"]

\* parent_id of a top-level comment: null
NullId == "null"

\* useState({title: "", content: "", tags: "", is_anonymous: false})
EmptyForm == [title |-> <<>>, content |-> <<>>, tags |-> <<>>, is_anonymous |-> FALSE]

\* no toast on the screen
NoNotice == [kind |-> "none", text |-> "none"]

\* the tables of a store in which nobody has posted
EmptyStore == [posts |-> <<>>, comments |-> <<>>]

\* comments[postId] of a post that has no bucket: undefined
EmptyMap == [k \in {} |-> <<>>]

Put(m, k, v) == [x \in DOMAIN m \cup {k} |-> IF x = k THEN v ELSE m[x]]

\* the record of the last input handled: its handler, its argument, the
\* page index it found, and whether the input before it was the very same
Op(name, input) ==
    [op |-> name, arg |-> input, page |-> currentPage, twice |-> FALSE]

\* the same for a push event
EventOp(name, payload) ==
    [op |-> name, arg |-> payload, page |-> currentPage,
     twice |-> lastOp.op = name /\ lastOp.arg = payload]

Count(seq, x) == Cardinality({i \in DOMAIN seq : seq[i] = x})

Range(seq) == {seq[i] : i \in DOMAIN seq}

Max(a, b) == IF a >= b THEN a ELSE b
Min(a, b) == IF a <= b THEN a ELSE b

RECURSIVE Concat(_)
Concat(ss) == IF ss = <<>> THEN <<>> ELSE Head(ss) \o Concat(Tail(ss))

----------------------------------------------------------------------------
(* String.prototype.toLowerCase and String.prototype.includes *)

LowerChar(c) ==
    CASE c = "A" -> "a"
      [] c = "B" -> "b"
      [] OTHER -> c

toLowerCase(s) == [i \in 1..Len(s) |-> LowerChar(s[i])]

includes(s, q) ==
    \E i \in 0..(Len(s) - Len(q)) : SubSeq(s, i + 1, i + Len(q)) = q

\* new Date(created_at).getTime(), in whole days from 2024-01-01
getTime(d) ==
    CASE d = "2024-01-01" -> 0
      [] d = "2024-01-02" -> 1
      [] d = "2024-01-03" -> 2
      [] OTHER -> 3

----------------------------------------------------------------------------
(* Array.prototype.sort: stable, by the comparator of lines 136-148 *)

\* the counts compared the other way round: fewest first
compareFewestFirst(a, b, sort) ==
    CASE sort = "oldest" -> getTime(a.created_at) - getTime(b.created_at)
      [] sort = "most_liked" -> a.likes_count - b.likes_count
      [] sort = "most_commented" -> a.comments_count - b.comments_count
      [] OTHER -> getTime(b.created_at) - getTime(a.created_at)

compare(a, b, sort) ==
    CASE sort = "oldest" -> getTime(a.created_at) - getTime(b.created_at)
      [] sort = "most_liked" -> b.likes_count - a.likes_count
      [] sort = "most_commented" -> b.comments_count - a.comments_count
      [] OTHER -> getTime(b.created_at) - getTime(a.created_at)

\* x goes before the first element that compares greater than it
InsertSorted(x, sorted, sort) ==
    LET greater == {k \in 1..Len(sorted) : compare(sorted[k], x, sort) > 0}
        at == IF greater = {} THEN Len(sorted) + 1
              ELSE CHOOSE k \in greater : \A j \in greater : k <= j
    IN  SubSeq(sorted, 1, at - 1) \o <<x>> \o SubSeq(sorted, at, Len(sorted))

RECURSIVE SortPosts(_, _)
SortPosts(seq, sort) ==
    IF seq = <<>> THEN <<>>
    ELSE InsertSorted(seq[Len(seq)], SortPosts(SubSeq(seq, 1, Len(seq) - 1), sort), sort)

----------------------------------------------------------------------------
(* applyFiltersAndSort, lines 116-152 *)

\* the query taken as typed, not lower-cased
MatchesSearchQueryAsTyped(post, query) ==
    \/ includes(toLowerCase(post.title), query)
    \/ includes(toLowerCase(post.content), query)
    \/ \E k \in 1..Len(post.tags) : includes(toLowerCase(post.tags[k]), query)

MatchesSearch(post, query) ==
    \/ includes(toLowerCase(post.title), toLowerCase(query))
    \/ includes(toLowerCase(post.content), toLowerCase(query))
    \/ \E k \in 1..Len(post.tags) :
           includes(toLowerCase(post.tags[k]), toLowerCase(query))

SearchFilter(P, query) ==
    IF query # <<>>
    THEN SelectSeq(P, LAMBDA post : MatchesSearch(post, query))
    ELSE P

\* the author compared with the post's own identifier
UserFilterByPostId(P, filter, u) ==
    IF filter = "my_posts" /\ u # Null
    THEN SelectSeq(P, LAMBDA post : post.id = u.id)
    ELSE IF filter = "anonymous"
    THEN SelectSeq(P, LAMBDA post : post.is_anonymous)
    ELSE P

UserFilter(P, filter, u) ==
    IF filter = "my_posts" /\ u # Null
    THEN SelectSeq(P, LAMBDA post : post.user_id = u.id)
    ELSE IF filter = "anonymous"
    THEN SelectSeq(P, LAMBDA post : post.is_anonymous)
    ELSE P

applyFiltersAndSort(P, query, filter, sort, u) ==
    SortPosts(UserFilter(SearchFilter(P, query), filter, u), sort)

----------------------------------------------------------------------------
(* Inputs of the pipeline *)

MkPost(id, title, content, tags, anon, likes, ncomments, created, uid) ==
    [id |-> id, title |-> title, content |-> content, tags |-> tags,
     is_anonymous |-> anon, likes_count |-> likes,
     comments_count |-> ncomments, created_at |-> created,
     updated_at |-> created, user_id |-> uid]

PostPool ==
    { MkPost("p1", <<"A", "b">>, <<"b">>, <<>>, FALSE, 2, 0, "2024-01-01", "u1"),
      MkPost("p2", <<"b">>, <<"a", "B">>, << <<"a">> >>, TRUE, 5, 1, "2024-01-03", "u2"),
      MkPost("p3", <<>>, <<"b">>, << <<"b">>, <<"B", "A">> >>, FALSE, 2, 1, "2024-01-01", "u1"),
      MkPost("p4", <<"b", "a">>, <<>>, <<>>, TRUE, 0, 2, "2024-01-02", "u1"),
      MkPost("p5", <<"B">>, <<"B", "b">>, << <<"B">> >>, FALSE, 5, 2, "2024-01-03", "u3") }

Queries == { <<>>, <<"a", "B">>, <<"b", "A">>, <<"a">> }

SeqsUpTo(S, n) == UNION {[1..k -> S] : k \in 0..n}

----------------------------------------------------------------------------
(* The effect of lines 74-76: it runs applyFiltersAndSort after every      *)
(* render in which posts, searchQuery, sortBy or filterBy changed, and     *)
(* before any later update is rendered.                                    *)

\* the list recomputed, the page index left alone
EffectKeepsPage(P, query, filter, sort) ==
    /\ filteredPosts' = applyFiltersAndSort(P, query, filter, sort, user)
    /\ UNCHANGED currentPage

Effect(P, query, filter, sort) ==
    /\ filteredPosts' = applyFiltersAndSort(P, query, filter, sort, user)
    /\ currentPage' = 1

\* onChange of the search input, line 436
SetSearchQuery(q) ==
    /\ q # searchQuery
    /\ searchQuery' = q
    /\ Effect(posts, q, filterBy, sortBy)
    /\ lastOp' = Op("setSearchQuery", q)
    /\ UNCHANGED sessionVars
    /\ UNCHANGED <<posts, comments, sortBy, filterBy, user>>

\* onValueChange of the sort select, line 441
SetSortBy(s) ==
    /\ s # sortBy
    /\ sortBy' = s
    /\ Effect(posts, searchQuery, filterBy, s)
    /\ lastOp' = Op("setSortBy", s)
    /\ UNCHANGED sessionVars
    /\ UNCHANGED <<posts, comments, searchQuery, filterBy, user>>

\* onValueChange of the filter select, line 473
SetFilterBy(f) ==
    /\ f # filterBy
    /\ filterBy' = f
    /\ Effect(posts, searchQuery, f, sortBy)
    /\ lastOp' = Op("setFilterBy", f)
    /\ UNCHANGED sessionVars
    /\ UNCHANGED <<posts, comments, searchQuery, sortBy, user>>

----------------------------------------------------------------------------
(* setupRealtimeSubscriptions, lines 78-114 *)

InsertEvent(row) == [eventType |-> "INSERT", new |-> row, old |-> EmptyObj]
UpdateEvent(row) == [eventType |-> "UPDATE", new |-> row, old |-> [id |-> row.id]]
DeleteEvent(row) == [eventType |-> "DELETE", new |-> EmptyObj, old |-> [id |-> row.id]]

\* an update taken as an upsert: the new row goes to the front of the list
MergePostUpdateToFront(prev, payload) ==
    IF payload.eventType = "INSERT"
    THEN <<payload.new>> \o prev
    ELSE IF payload.eventType = "UPDATE"
    THEN <<payload.new>> \o SelectSeq(prev, LAMBDA post : post.id # payload.new.id)
    ELSE IF payload.eventType = "DELETE"
    THEN SelectSeq(prev, LAMBDA post : post.id # payload.old.id)
    ELSE prev

\* the setPosts updaters of lines 85-93
MergePost(prev, payload) ==
    IF payload.eventType = "INSERT"
    THEN <<payload.new>> \o prev
    ELSE IF payload.eventType = "UPDATE"
    THEN [i \in 1..Len(prev) |->
             IF prev[i].id = payload.new.id THEN payload.new ELSE prev[i]]
    ELSE IF payload.eventType = "DELETE"
    THEN SelectSeq(prev, LAMBDA post : post.id # payload.old.id)
    ELSE prev

\* the setComments updater of lines 104-110
MergeComment(prev, payload) ==
    IF payload.eventType = "INSERT"
    THEN LET row == payload.new
             bucket == IF row.post_id \in DOMAIN prev
                       THEN prev[row.post_id]
                       ELSE <<>>
         IN  Put(prev, row.post_id, bucket \o <<row>>)
    ELSE prev

\* the posts-changes callback; every updater returns a new array, so the
\* effect of lines 74-76 runs after it
PostsChanges(payload) ==
    /\ posts' = MergePost(posts, payload)
    /\ Effect(posts', searchQuery, filterBy, sortBy)
    /\ lastOp' = EventOp("postsEvent", payload)
    /\ UNCHANGED <<comments, searchQuery, sortBy, filterBy, user>>

\* an event of the posts channel, whatever the store has been doing
PostsEvent(payload) == PostsChanges(payload) /\ UNCHANGED sessionVars

\* the comments-changes callback
CommentsChanges(payload) ==
    /\ comments' = MergeComment(comments, payload)
    /\ lastOp' = EventOp("commentsEvent", payload)
    /\ UNCHANGED <<posts, filteredPosts, searchQuery, sortBy, filterBy,
                   currentPage, user>>

\* an event of the comments channel, whatever the store has been doing
CommentsEvent(payload) == CommentsChanges(payload) /\ UNCHANGED sessionVars

----------------------------------------------------------------------------
(* organizeComments, lines 294-300 *)

\* {...comment, replies}
WithReplies(comment, replies) ==
    [f \in DOMAIN comment \cup {"replies"} |->
        IF f = "replies" THEN replies ELSE comment[f]]

\* a comment whose parent is not in the list is taken as top-level
organizeCommentsOrphansOnTop(cs) ==
    LET topLevel == SelectSeq(cs, LAMBDA comment :
                        \/ comment.parent_id = NullId
                        \/ \A c \in Range(cs) : c.id # comment.parent_id)
    IN  [i \in 1..Len(topLevel) |->
            WithReplies(topLevel[i],
                SelectSeq(cs, LAMBDA reply : reply.parent_id = topLevel[i].id))]

\* the replies of a comment listed newest first
organizeCommentsRepliesReversed(cs) ==
    LET topLevel == SelectSeq(cs, LAMBDA comment : comment.parent_id = NullId)
    IN  [i \in 1..Len(topLevel) |->
            LET replies == SelectSeq(cs, LAMBDA reply : reply.parent_id = topLevel[i].id)
            IN  WithReplies(topLevel[i],
                    [k \in 1..Len(replies) |-> replies[Len(replies) + 1 - k]])]

organizeComments(cs) ==
    LET topLevel == SelectSeq(cs, LAMBDA comment : comment.parent_id = NullId)
    IN  [i \in 1..Len(topLevel) |->
            WithReplies(topLevel[i],
                SelectSeq(cs, LAMBDA reply : reply.parent_id = topLevel[i].id))]

----------------------------------------------------------------------------
(* The comments of the store, in creation order: every parent is created   *)
(* before its replies.                                                     *)

MkComment(id, post, parent, created) ==
    [id |-> id, post_id |-> post, content |-> <<"a">>, is_anonymous |-> FALSE,
     likes_count |-> 0, created_at |-> created, user_id |-> "u1",
     parent_id |-> parent]

CommentTable ==
    << MkComment("c1", "p1", NullId, "2024-01-01"),
       MkComment("c2", "p1", "c1", "2024-01-01"),
       MkComment("c3", "p1", NullId, "2024-01-02"),
       MkComment("c4", "p1", "c2", "2024-01-02"),
       MkComment("c5", "p1", "c3", "2024-01-03"),
       MkComment("c6", "p1", "c1", "2024-01-03"),
       MkComment("c7", "p2", NullId, "2024-01-03") >>

\* the answer of fetchComments(postId), lines 177-186, when the store holds
\* the first n comments
FetchedComments(postId, n) ==
    SelectSeq(SubSeq(CommentTable, 1, Min(n, Len(CommentTable))),
              LAMBDA c : c.post_id = postId)

----------------------------------------------------------------------------
(* Pagination, lines 286-292 and 584-623 *)

\* Array.prototype.slice(start, end)
slice(seq, start, end) ==
    LET len == Len(seq)
        from == IF start < 0 THEN Max(len + start, 0) ELSE Min(start, len)
        to == IF end < 0 THEN Max(len + end, 0) ELSE Min(end, len)
    IN  SubSeq(seq, from + 1, to)

\* Math.floor in the place of Math.ceil
floorDiv(a, b) == a \div b

\* Math.ceil(a / b) for a >= 0 and b > 0
ceilDiv(a, b) == IF a % b = 0 THEN a \div b ELSE a \div b + 1

\* the slice taken from page * size
PaginatedPostsFromPage(fp, page, size) ==
    LET startIndex == page * size
        endIndex == startIndex + size
    IN  slice(fp, startIndex, endIndex)

PaginatedPosts(fp, page, size) ==
    LET startIndex == (page - 1) * size
        endIndex == startIndex + size
    IN  slice(fp, startIndex, endIndex)

TotalPagesOf(fp, size) == ceilDiv(Len(fp), size)

getPaginatedPosts == PaginatedPosts(filteredPosts, currentPage, POSTS_PER_PAGE)

totalPages == TotalPagesOf(filteredPosts, POSTS_PER_PAGE)

\* the page-number buttons rendered at lines 596-611
PageButtons ==
    { pageNum \in { Max(1, Min(totalPages - 4, currentPage - 2)) + i :
                        i \in 0..(Min(5, totalPages) - 1) } :
        pageNum <= totalPages }

\* Previous: rendered when totalPages > 1, disabled on page 1
PreviousPage ==
    /\ totalPages > 1
    /\ currentPage # 1
    /\ currentPage' = Max(1, currentPage - 1)
    /\ lastOp' = Op("previousPage", "none")
    /\ UNCHANGED sessionVars
    /\ UNCHANGED <<posts, filteredPosts, comments, searchQuery, sortBy,
                   filterBy, user>>

\* Next never disabled and not capped at the last page
NextPagePastEnd ==
    /\ totalPages > 1
    /\ currentPage' = currentPage + 1
    /\ lastOp' = Op("nextPage", "none")
    /\ UNCHANGED sessionVars
    /\ UNCHANGED <<posts, filteredPosts, comments, searchQuery, sortBy,
                   filterBy, user>>

\* Next: rendered when totalPages > 1, disabled on the last page
NextPage ==
    /\ totalPages > 1
    /\ currentPage # totalPages
    /\ currentPage' = Min(totalPages, currentPage + 1)
    /\ lastOp' = Op("nextPage", "none")
    /\ UNCHANGED sessionVars
    /\ UNCHANGED <<posts, filteredPosts, comments, searchQuery, sortBy,
                   filterBy, user>>

PageClick(pageNum) ==
    /\ totalPages > 1
    /\ pageNum \in PageButtons
    /\ currentPage' = pageNum
    /\ lastOp' = Op("pageClick", pageNum)
    /\ UNCHANGED sessionVars
    /\ UNCHANGED <<posts, filteredPosts, comments, searchQuery, sortBy,
                   filterBy, user>>

----------------------------------------------------------------------------
(* The comment bucket of one post under push events *)

InitView ==
    /\ searchQuery = <<>>
    /\ sortBy = "newest"
    /\ filterBy = "all"
    /\ filteredPosts = applyFiltersAndSort(posts, searchQuery, filterBy, sortBy, user)
    /\ currentPage = 1
    /\ isLoading = FALSE
    /\ lastOp = [op |-> "fetchPosts", arg |-> "none", page |-> 1, twice |-> FALSE]

\* the forms as constructed (lines 48-56), no call suspended, no event on
\* its way, no toast raised
InitIdle ==
    /\ selectedPost = NullId
    /\ replyingTo = NullId
    /\ newPost = EmptyForm
    /\ newComment = <<>>
    /\ calls = <<>>
    /\ events = <<>>
    /\ notice = NoNotice

\* no bucket yet, or the bucket as fetched when the post was first selected
InitTree ==
    /\ posts = <<>>
    /\ user = Null
    /\ comments \in {EmptyMap} \cup
           {Put(EmptyMap, "p1", FetchedComments("p1", n)) : n \in 0..MaxComments}
    /\ InitView
    /\ InitIdle
    /\ store = EmptyStore

TreeRows == {CommentTable[i] : i \in 1..6}

BucketOf(postId) == IF postId \in DOMAIN comments THEN comments[postId] ELSE <<>>

NextTree ==
    \E row \in TreeRows :
        Len(BucketOf(row.post_id)) < MaxCache /\ CommentsEvent(InsertEvent(row))

SpecTree == InitTree /\ [][NextTree]_vars

----------------------------------------------------------------------------
(* The posts cache and the comment buckets under push events *)

PostById(id) == CHOOSE p \in PostPool : p.id = id

\* the row after a like and the store's timestamp trigger
Liked(p) == [p EXCEPT !.likes_count = @ + 1, !.updated_at = "2024-01-04"]

PushPosts == {PostById("p1")}
PushComments == {CommentTable[2], CommentTable[7]}

InitCache ==
    /\ posts \in {<<>>, <<PostById("p2"), PostById("p1")>>}
    /\ user = Null
    /\ comments \in {EmptyMap, Put(EmptyMap, "p1", FetchedComments("p1", 1))}
    /\ InitView
    /\ InitIdle
    /\ store = EmptyStore

NextCache ==
    \/ \E row \in PushPosts :
           Len(posts) < MaxCache /\ PostsEvent(InsertEvent(row))
    \/ \E row \in PushPosts : PostsEvent(UpdateEvent(Liked(row)))
    \/ \E row \in PushPosts : PostsEvent(DeleteEvent(row))
    \/ \E row \in PushComments :
           Len(BucketOf(row.post_id)) < MaxCache /\ CommentsEvent(InsertEvent(row))
    \/ \E row \in PushComments : CommentsEvent(UpdateEvent(row))
    \/ \E row \in PushComments : CommentsEvent(DeleteEvent(row))

SpecCache == InitCache /\ [][NextCache]_vars

----------------------------------------------------------------------------
(* The pipeline on small collections *)

InitPipeline ==
    /\ posts \in SeqsUpTo(PostPool, MaxPosts)
    /\ user \in {Null} \cup Users
    /\ comments = EmptyMap
    /\ InitView
    /\ InitIdle
    /\ store = EmptyStore

NextPipeline ==
    \/ \E q \in Queries : SetSearchQuery(q)
    \/ \E s \in SortOption : SetSortBy(s)
    \/ \E f \in FilterOption : SetFilterBy(f)

SpecPipeline == InitPipeline /\ [][NextPipeline]_vars

----------------------------------------------------------------------------
(* The forum view over a fetched list of up to two pages and more *)

MaxFetched == 2 * POSTS_PER_PAGE + MaxExtra

\* the i-th post of the store, newest first
StorePost(i) ==
    MkPost("q" \o ToString(i),
           IF i % 2 = 0 THEN <<"a">> ELSE <<"B">>, <<>>, <<>>,
           i % 3 = 0, i % 3, i % 2,
           IF i % 4 = 0 THEN "2024-01-01" ELSE "2024-01-02",
           IF i % 2 = 0 THEN "u1" ELSE "u2")

\* a post another session has just created
NewPost == MkPost("q0", <<"a">>, <<>>, <<>>, FALSE, 0, 0, "2024-01-03", "u2")

ViewQueries == { <<>>, <<"b">> }

\* list lengths around the page boundaries
FetchedSizes ==
    {n \in 0..MaxFetched :
        \E e \in -1..MaxExtra : (n - e) % POSTS_PER_PAGE = 0}

Init ==
    /\ posts \in {[i \in 1..n |-> StorePost(i)] : n \in FetchedSizes}
    /\ user \in {Null, [id |-> "u1"]}
    /\ comments = EmptyMap
    /\ InitView
    /\ InitIdle
    /\ store = EmptyStore

Next ==
    \/ \E q \in ViewQueries : SetSearchQuery(q)
    \/ \E s \in SortOption : SetSortBy(s)
    \/ \E f \in FilterOption : SetFilterBy(f)
    \/ PreviousPage
    \/ NextPage
    \/ \E pageNum \in 1..(MaxFetched + 1) : PageClick(pageNum)
    \/ Count(posts, NewPost) < MaxInserted /\ PostsEvent(InsertEvent(NewPost))
    \/ PostsEvent(DeleteEvent(StorePost(1)))

Spec == Init /\ [][Next]_vars

----------------------------------------------------------------------------
(* Vocabulary of the properties *)

\* two characters are the same letter, whatever their case
SameLetter(c, d) ==
    \/ c = d
    \/ {c, d} = {"a", "A"}
    \/ {c, d} = {"b", "B"}

\* q occurs in text at some offset, letter by letter, case ignored
ContainsCI(text, q) ==
    \E off \in 0..(Len(text) - Len(q)) :
        \A k \in 1..Len(q) : SameLetter(text[off + k], q[k])

PostContains(post, q) ==
    \/ ContainsCI(post.title, q)
    \/ ContainsCI(post.content, q)
    \/ \E t \in Range(post.tags) : ContainsCI(t, q)

\* a may stand before b under the sort mode
InSortOrder(a, b, sort) ==
    CASE sort = "newest" -> getTime(a.created_at) >= getTime(b.created_at)
      [] sort = "oldest" -> getTime(a.created_at) <= getTime(b.created_at)
      [] sort = "most_liked" -> a.likes_count >= b.likes_count
      [] sort = "most_commented" -> a.comments_count >= b.comments_count

Sorted(seq, sort) ==
    \A i \in 1..(Len(seq) - 1) : InSortOrder(seq[i], seq[i + 1], sort)

\* out holds exactly the elements of P that are in kept, as often as P does
ExactlyThose(out, P, kept) ==
    \A p \in Range(P) \cup Range(out) :
        Count(out, p) = IF p \in kept THEN Count(P, p) ELSE 0

----------------------------------------------------------------------------
(* C2: with filter mode my_posts and a current actor A, the output holds   *)
(* exactly the posts whose author is A and that match the query (AND), in  *)
(* the order of the active sort mode.                                      *)
C2_MineFilterExact ==
    (filterBy = "my_posts" /\ user # Null) =>
        /\ ExactlyThose(filteredPosts, posts,
               {p \in Range(posts) :
                    p.user_id = user.id /\ PostContains(p, searchQuery)})
        /\ Sorted(filteredPosts, sortBy)

C2_Witness ==
    /\ filterBy = "my_posts" /\ user # Null /\ searchQuery # <<>>
    /\ lastOp.op = "setFilterBy"
    /\ Len(filteredPosts) >= 1
    /\ \E p \in Range(posts) : p.user_id = user.id /\ ~PostContains(p, searchQuery)
    /\ \E p \in Range(posts) : p.user_id # user.id /\ PostContains(p, searchQuery)

(* C3: with filter mode my_posts and no current actor the output is empty  *)
(* for every post collection and every query.                              *)
C3_MineWithoutActorEmpty ==
    (filterBy = "my_posts" /\ user = Null) => filteredPosts = <<>>

(* C4: with a non-empty query and filter mode all, every post of the       *)
(* output contains the query, case ignored, in its title, its body or one  *)
(* of its tags, and no post left out of the output does.                   *)
C4_SearchExact ==
    (filterBy = "all" /\ searchQuery # <<>>) =>
        /\ \A i \in DOMAIN filteredPosts : PostContains(filteredPosts[i], searchQuery)
        /\ \A p \in Range(posts) :
               Count(filteredPosts, p) # Count(posts, p) => ~PostContains(p, searchQuery)
        /\ Range(filteredPosts) \subseteq Range(posts)

C4_Witness ==
    /\ filterBy = "all" /\ searchQuery = <<"b", "A">>
    /\ lastOp.op = "setSearchQuery"
    /\ \E i \in DOMAIN filteredPosts :
           /\ ~ContainsCI(filteredPosts[i].title, searchQuery)
           /\ ~ContainsCI(filteredPosts[i].content, searchQuery)
    /\ \E p \in Range(posts) : p \notin Range(filteredPosts)

(* C1: applying an identical Insert push event twice leaves exactly one     *)
(* copy of the record in the cache: in the posts list for a post, in the   *)
(* bucket keyed by its post id for a comment.                              *)
C1_InsertTwiceOneCopy ==
    (/\ lastOp.op \in {"postsEvent", "commentsEvent"}
     /\ lastOp.twice
     /\ lastOp.arg.eventType = "INSERT") =>
        LET row == lastOp.arg.new
            cache == IF lastOp.op = "postsEvent" THEN posts
                     ELSE comments[row.post_id]
        IN  Cardinality({i \in DOMAIN cache : cache[i].id = row.id}) = 1

----------------------------------------------------------------------------
(* The comment tree of post p1, as rendered at line 553 *)

Bucket == BucketOf("p1")

Tree == organizeComments(Bucket)

\* a tree node without its replies: the comment it was made from
Plain(node) == [f \in DOMAIN node \ {"replies"} |-> node[f]]

TopLevelOf(tree) == [i \in DOMAIN tree |-> Plain(tree[i])]

\* each top-level comment followed by its direct replies
Flatten(tree) ==
    Concat([i \in DOMAIN tree |-> <<Plain(tree[i])>> \o tree[i].replies])

\* all top-level comments, then all direct replies
FlattenByLevel(tree) ==
    TopLevelOf(tree) \o Concat([i \in DOMAIN tree |-> tree[i].replies])

\* s can be obtained from t by leaving elements out
RECURSIVE IsSubseq(_, _)
IsSubseq(s, t) ==
    IF s = <<>> THEN TRUE
    ELSE IF t = <<>> THEN FALSE
    ELSE IF Head(s) = Head(t) THEN IsSubseq(Tail(s), Tail(t))
    ELSE IsSubseq(s, Tail(t))

IsTopLevel(c) == c.parent_id = NullId

(* C6: the tree builder is idempotent: rebuilding the tree from its own    *)
(* flattening (top-level comments followed by their direct replies) gives  *)
(* the same tree.                                                          *)
C6_TreeIdempotent ==
    /\ organizeComments(Flatten(Tree)) = Tree
    /\ organizeComments(FlattenByLevel(Tree)) = Tree

(* C7: exactly one level of nesting: the top level is exactly the comments *)
(* without a parent reference, the replies of each are exactly the         *)
(* comments whose parent reference is its identifier, a comment whose      *)
(* parent is a reply or is not in the list appears nowhere in the tree,    *)
(* and the empty list gives the empty tree.                                *)
C7_OneLevelExact ==
    /\ ExactlyThose(TopLevelOf(Tree), Bucket,
                    {c \in Range(Bucket) : IsTopLevel(c)})
    /\ \A i \in DOMAIN Tree :
           ExactlyThose(Tree[i].replies, Bucket,
                        {c \in Range(Bucket) : c.parent_id = Tree[i].id})
    /\ \A c \in Range(Bucket) :
           (/\ ~IsTopLevel(c)
            /\ ~\E t \in Range(Bucket) : IsTopLevel(t) /\ t.id = c.parent_id)
               => c \notin Range(Flatten(Tree))
    /\ Bucket = <<>> => Tree = <<>>

C7_Witness ==
    /\ lastOp.op = "commentsEvent"
    /\ \E i \in DOMAIN Tree : Tree[i].replies # <<>>
    \* a reply to a reply, and a reply whose parent is not in the list
    /\ \E c \in Range(Bucket) : \E t \in Range(Bucket) :
           ~IsTopLevel(c) /\ ~IsTopLevel(t) /\ t.id = c.parent_id
    /\ \E c \in Range(Bucket) :
           ~IsTopLevel(c) /\ ~\E t \in Range(Bucket) : t.id = c.parent_id

(* C8: input order is preserved: the top-level comments, and the replies   *)
(* of each top-level comment, stand in the relative order they have in the *)
(* flat list.                                                              *)
C8_OrderPreserved ==
    /\ IsSubseq(TopLevelOf(Tree), Bucket)
    /\ \A i \in DOMAIN Tree : IsSubseq(Tree[i].replies, Bucket)

C8_Witness ==
    /\ lastOp.op = "commentsEvent"
    /\ Len(Tree) >= 2
    /\ \E i \in DOMAIN Tree :
           /\ Len(Tree[i].replies) >= 2
           /\ Tree[i].replies[1] # Tree[i].replies[2]
    \* the flat list is not in creation order
    /\ \E i \in 1..(Len(Bucket) - 1) :
           getTime(Bucket[i].created_at) > getTime(Bucket[i + 1].created_at)

----------------------------------------------------------------------------
\* the elements of seq at the zero-based indices [from, to), clamped to seq
Window(seq, from, to) ==
    [k \in 1..(Min(to, Len(seq)) - Min(from, Len(seq))) |-> seq[from + k]]

PageSizes == 1..(POSTS_PER_PAGE + MaxExtra)

(* C5: for every page size >= 1 the pages 1..totalPages of the filtered    *)
(* and sorted list, concatenated, give the list back, and page p holds     *)
(* exactly the elements at the indices [(p-1)*size, p*size), clamped.      *)
C5_PagesPartition ==
    /\ \A size \in PageSizes :
           LET pages == [p \in 1..TotalPagesOf(filteredPosts, size) |->
                            PaginatedPosts(filteredPosts, p, size)]
           IN  /\ Concat(pages) = filteredPosts
               /\ \A p \in DOMAIN pages :
                      pages[p] = Window(filteredPosts, (p - 1) * size, p * size)
    /\ getPaginatedPosts =
           Window(filteredPosts, (currentPage - 1) * POSTS_PER_PAGE,
                  currentPage * POSTS_PER_PAGE)

C5_Witness ==
    /\ sortBy = "most_liked"
    /\ totalPages = 3 /\ currentPage = 3
    /\ Len(getPaginatedPosts) \in 1..(POSTS_PER_PAGE - 1)
    /\ getPaginatedPosts[1] = filteredPosts[2 * POSTS_PER_PAGE + 1]

(* C9: the page index is reset to 1 whenever the query, the filter mode or *)
(* the sort mode changes, and Previous, Next and a page-number click leave *)
(* the page they chose in force.                                           *)
C9_PageReset ==
    [][/\ (searchQuery' # searchQuery \/ filterBy' # filterBy \/ sortBy' # sortBy)
           => currentPage' = 1
       /\ lastOp'.op = "previousPage" => currentPage' = Max(1, currentPage - 1)
       /\ lastOp'.op = "nextPage" => currentPage' = Min(totalPages, currentPage + 1)
       /\ lastOp'.op = "pageClick" => currentPage' = lastOp'.arg
       /\ lastOp'.op \in {"previousPage", "nextPage", "pageClick"}
           => filteredPosts' = filteredPosts]_vars

\* a change of the sort mode found the view on page 3 and left it on page 1
C9_Witness ==
    /\ lastOp.op = "setSortBy"
    /\ lastOp.page = 3
    /\ currentPage = 1
    /\ totalPages = 3

(* C10: total pages is ceil(count / page size) with a minimum of 1: 1, not *)
(* 0, for an empty filtered list.                                          *)
C10_TotalPagesAtLeastOne ==
    /\ totalPages >= 1
    /\ Len(filteredPosts) > 0 =>
           /\ totalPages * POSTS_PER_PAGE >= Len(filteredPosts)
           /\ (totalPages - 1) * POSTS_PER_PAGE < Len(filteredPosts)

(* C10 as amended: total pages is ceil(count / page size), which is 0 for  *)
(* an empty filtered list: there is no minimum of 1.                       *)
C10_TotalPagesCeil ==
    /\ totalPages * POSTS_PER_PAGE >= Len(filteredPosts)
    /\ (totalPages - 1) * POSTS_PER_PAGE < Len(filteredPosts)
    /\ Len(filteredPosts) = 0 => totalPages = 0

C10_Witness ==
    /\ Len(posts) > POSTS_PER_PAGE
    /\ lastOp.op \in {"setSearchQuery", "setFilterBy"}
    /\ filteredPosts = <<>>
    /\ totalPages = 0

----------------------------------------------------------------------------
\* the arrangements of the elements of seq
Arrangements(seq) ==
    {s \in [1..Len(seq) -> Range(seq)] :
        \A p \in Range(seq) : Count(s, p) = Count(seq, p)}

\* what the filter steps of the pipeline let through, before the sort
Filtered == UserFilter(SearchFilter(posts, searchQuery), filterBy, user)

(* C11: sorting by newest or oldest is deterministic: the comparator is a  *)
(* strict total order (creation timestamp, then identifier), so the output *)
(* is the same whatever the order of the posts in the cache.               *)
C11_TimeSortDeterministic ==
    sortBy \in {"newest", "oldest"} =>
        /\ \A a, b \in Range(posts) : a.id # b.id => compare(a, b, sortBy) # 0
        /\ \A Q \in Arrangements(posts) :
               applyFiltersAndSort(Q, searchQuery, filterBy, sortBy, user)
                   = filteredPosts

(* C12: with most_liked the output is in non-increasing order of like      *)
(* count and with most_commented of comment count, pair by adjacent pair,  *)
(* and the output is a permutation of the filtered input.                  *)
C12_CountSortOrdered ==
    sortBy \in {"most_liked", "most_commented"} =>
        /\ \A i \in 1..(Len(filteredPosts) - 1) :
               IF sortBy = "most_liked"
               THEN filteredPosts[i].likes_count >= filteredPosts[i + 1].likes_count
               ELSE filteredPosts[i].comments_count
                        >= filteredPosts[i + 1].comments_count
        /\ Len(filteredPosts) = Len(Filtered)
        /\ \A p \in Range(Filtered) \cup Range(filteredPosts) :
               Count(filteredPosts, p) = Count(Filtered, p)

\* three posts with two different counts, out of order in the cache
C12_Witness ==
    /\ lastOp.op = "setSortBy"
    /\ sortBy \in {"most_liked", "most_commented"}
    /\ Len(filteredPosts) = 3
    /\ filteredPosts # Filtered
    /\ filteredPosts[1].likes_count # filteredPosts[3].likes_count
    /\ filteredPosts[1].comments_count # filteredPosts[3].comments_count

----------------------------------------------------------------------------
\* the records of seq whose identifier is not id, in their order
Others(seq, id) == SelectSeq(seq, LAMBDA r : r.id # id)

Ids(seq) == {seq[i].id : i \in DOMAIN seq}

(* C19: a post Update event replaces exactly the cached post with the same *)
(* identifier and a post Delete event removes exactly that post; every     *)
(* other post and the order of the remaining posts are unchanged, and an   *)
(* event naming an identifier that is not cached changes nothing.          *)
C19_UpdateDeleteExact ==
    [][(lastOp'.op = "postsEvent" /\ lastOp'.arg.eventType \in {"UPDATE", "DELETE"}) =>
          LET ev == lastOp'.arg
              id == ev.old.id
          IN  /\ Others(posts', id) = Others(posts, id)
              /\ ev.eventType = "UPDATE" =>
                     /\ Len(posts') = Len(posts)
                     /\ \A i \in DOMAIN posts :
                            posts[i].id = id <=> posts'[i] = ev.new
              /\ ev.eventType = "DELETE" => id \notin Ids(posts')
              /\ id \notin Ids(posts) => posts' = posts]_vars

\* the liked row has replaced the cached one behind another post
C19_Witness ==
    /\ lastOp.op = "postsEvent"
    /\ lastOp.arg.eventType = "UPDATE"
    /\ Len(posts) >= 2
    /\ posts[1].id # lastOp.arg.new.id
    /\ posts[Len(posts)] = lastOp.arg.new
    /\ posts[Len(posts)].likes_count = PostById(lastOp.arg.new.id).likes_count + 1

(* C20: comment push events are merged into the bucket keyed by the        *)
(* comment's post reference: an Insert adds the comment to that bucket     *)
(* only, an Update replaces the cached comment with the same identifier,   *)
(* a Delete removes the cached comment with that identifier.               *)
C20_CommentEventsMerged ==
    [][lastOp'.op = "commentsEvent" =>
          LET ev == lastOp'.arg
              id == IF ev.eventType = "INSERT" THEN ev.new.id ELSE ev.old.id
              Was(k) == IF k \in DOMAIN comments THEN comments[k] ELSE <<>>
          IN  /\ ev.eventType = "INSERT" =>
                     /\ comments'[ev.new.post_id] = Was(ev.new.post_id) \o <<ev.new>>
                     /\ \A k \in DOMAIN comments' \ {ev.new.post_id} :
                            k \in DOMAIN comments /\ comments'[k] = comments[k]
              /\ ev.eventType = "UPDATE" =>
                     \A k \in DOMAIN comments' :
                         /\ Len(comments'[k]) = Len(Was(k))
                         /\ \A i \in DOMAIN comments'[k] :
                                comments'[k][i] = IF Was(k)[i].id = id THEN ev.new
                                                  ELSE Was(k)[i]
              /\ ev.eventType = "DELETE" =>
                     \A k \in DOMAIN comments' :
                         comments'[k] = Others(Was(k), id)]_vars

----------------------------------------------------------------------------
(* String.prototype.trim and the tags of line 200; a blank is " " *)

\* trim taken as the identity
trimNothing(s) == s

trim(s) ==
    LET solid == {i \in 1..Len(s) : s[i] # " "}
    IN  IF solid = {} THEN <<>>
        ELSE SubSeq(s, CHOOSE i \in solid : \A j \in solid : i <= j,
                       CHOOSE i \in solid : \A j \in solid : i >= j)

\* s.split(',')
RECURSIVE split(_)
split(s) ==
    LET commas == {i \in 1..Len(s) : s[i] = ","}
    IN  IF commas = {} THEN <<s>>
        ELSE LET k == CHOOSE i \in commas : \A j \in commas : i <= j
             IN  <<SubSeq(s, 1, k - 1)>> \o split(SubSeq(s, k + 1, Len(s)))

\* newPost.tags.split(',').map(tag => tag.trim()).filter(Boolean)
TagsOf(text) ==
    LET parts == split(text)
    IN  SelectSeq([i \in DOMAIN parts |-> trim(parts[i])], LAMBDA tag : tag # <<>>)

----------------------------------------------------------------------------
(* The store: the tables in creation order, every row later than the rows  *)
(* before it; what the store does with a call, and the event it sends on   *)
(* the channel of the table.                                               *)

\* now()
Now == "2024-01-04"

\* the row of public.posts made of an insert: generated id, default counts
PostRow(fields, n) ==
    [id |-> "n" \o ToString(n), title |-> fields.title,
     content |-> fields.content, tags |-> fields.tags,
     is_anonymous |-> fields.is_anonymous, likes_count |-> 0,
     comments_count |-> 0, created_at |-> Now, updated_at |-> Now,
     user_id |-> fields.user_id]

\* the row of public.comments made of an insert
CommentRow(fields, n) ==
    [id |-> "k" \o ToString(n), post_id |-> fields.post_id,
     content |-> fields.content, is_anonymous |-> FALSE, likes_count |-> 0,
     created_at |-> Now, user_id |-> fields.user_id,
     parent_id |-> fields.parent_id]

\* an update that raises the column by one in the store, whatever the value
\* the caller sent
PatchedByIncrement(row, patch) ==
    IF patch.column = "likes_count"
    THEN [row EXCEPT !.likes_count = @ + 1, !.updated_at = Now]
    ELSE [row EXCEPT !.comments_count = @ + 1, !.updated_at = Now]

\* .update({column: value}) on one row, with the updated_at trigger
Patched(row, patch) ==
    IF patch.column = "likes_count"
    THEN [row EXCEPT !.likes_count = patch.value, !.updated_at = Now]
    ELSE [row EXCEPT !.comments_count = patch.value, !.updated_at = Now]

\* .from('posts').select('*').order('created_at', {ascending: false})
SelectPosts ==
    [i \in 1..Len(store.posts) |-> store.posts[Len(store.posts) + 1 - i]]

\* .from('comments').select('*').eq('post_id', postId).order('created_at')
SelectComments(postId) ==
    SelectSeq(store.comments, LAMBDA c : c.post_id = postId)

PostsChannel(payload) == [table |-> "posts", payload |-> payload]
CommentsChannel(payload) == [table |-> "comments", payload |-> payload]

----------------------------------------------------------------------------
(* The handlers suspended at an await: the call sent, the values the       *)
(* handler keeps in its closure, and the answer once the store has given   *)
(* one.                                                                    *)

Pending == [status |-> "pending", data |-> "none"]
Failed == [status |-> "error", data |-> "none"]
Ok(data) == [status |-> "ok", data |-> data]

Call(fn, at, arg, env) ==
    [fn |-> fn, at |-> at, arg |-> arg, env |-> env, res |-> Pending]

Without(seq, i) == SubSeq(seq, 1, i - 1) \o SubSeq(seq, i + 1, Len(seq))

Toast(kind, text) == [kind |-> kind, text |-> text]

\* fetchPosts(), up to its await (line 161); by is the call of the handler
\* that asked for it, kept for the record
FetchPostsCall(by) == Call("fetchPosts", "select", "posts", by)

\* fetchComments(postId), up to its await (line 179)
FetchCommentsCall(postId) == Call("fetchComments", "select", postId, "none")

----------------------------------------------------------------------------
(* The forms and the handlers of the user's actions, each up to its first  *)
(* await                                                                   *)

\* the posts on the screen, line 486
Rendered == {getPaginatedPosts[i] : i \in DOMAIN getPaginatedPosts}

\* the top-level comments on the screen, each with its reply button
RenderedThreads ==
    IF \E post \in Rendered : post.id = selectedPost /\ selectedPost \in DOMAIN comments
    THEN {c.id : c \in Range(organizeComments(comments[selectedPost]))}
    ELSE {}

\* the comments on the screen, replies included (lines 302 and 354); each
\* shows the reply form when replyingTo is its id (line 332)
RenderedComments ==
    IF \E post \in Rendered : post.id = selectedPost /\ selectedPost \in DOMAIN comments
    THEN Ids(Flatten(organizeComments(comments[selectedPost])))
    ELSE {}

\* the reply button on every comment on the screen, replies included
SetReplyingToAnyComment(commentId) ==
    /\ commentId \in RenderedComments
    /\ replyingTo' = IF replyingTo = commentId THEN NullId ELSE commentId
    /\ lastOp' = Op("setReplyingTo", commentId)
    /\ UNCHANGED isLoading
    /\ UNCHANGED <<posts, filteredPosts, comments, searchQuery, sortBy,
                   filterBy, currentPage, user, selectedPost, newPost,
                   newComment, store, calls, events, notice>>

\* onChange of the comment and reply textareas, lines 336 and 563: they are
\* rendered for a signed-in user under the selected post
SetNewComment(text) ==
    /\ user # Null
    /\ \E post \in Rendered : post.id = selectedPost
    /\ newComment # text
    /\ newComment' = text
    /\ lastOp' = Op("setNewComment", text)
    /\ UNCHANGED isLoading
    /\ UNCHANGED <<posts, filteredPosts, comments, searchQuery, sortBy,
                   filterBy, currentPage, user, selectedPost, replyingTo,
                   newPost, store, calls, events, notice>>

\* onClick of the reply button, lines 317-326: a comment rendered as a reply
\* has none
SetReplyingTo(commentId) ==
    /\ commentId \in RenderedThreads
    /\ replyingTo' = IF replyingTo = commentId THEN NullId ELSE commentId
    /\ lastOp' = Op("setReplyingTo", commentId)
    /\ UNCHANGED isLoading
    /\ UNCHANGED <<posts, filteredPosts, comments, searchQuery, sortBy,
                   filterBy, currentPage, user, selectedPost, newPost,
                   newComment, store, calls, events, notice>>

\* handlePostClick, lines 279-284
handlePostClick(postId) ==
    /\ selectedPost' = postId
    /\ calls' = IF postId \notin DOMAIN comments
                THEN Append(calls, FetchCommentsCall(postId))
                ELSE calls
    /\ lastOp' = Op("handlePostClick", postId)
    /\ UNCHANGED isLoading
    /\ UNCHANGED <<posts, filteredPosts, comments, searchQuery, sortBy,
                   filterBy, currentPage, user, replyingTo, newPost,
                   newComment, store, events, notice>>

\* createPost without its guard
createPostUnguarded ==
    /\ calls' = Append(calls,
           Call("createPost", "insert",
                [title |-> newPost.title, content |-> newPost.content,
                 tags |-> TagsOf(newPost.tags),
                 is_anonymous |-> newPost.is_anonymous,
                 user_id |-> IF user = Null THEN NullId ELSE user.id],
                "none"))
    /\ UNCHANGED notice
    /\ lastOp' = Op("createPost", newPost)
    /\ UNCHANGED isLoading
    /\ UNCHANGED <<posts, filteredPosts, comments, searchQuery, sortBy,
                   filterBy, currentPage, user, selectedPost, replyingTo,
                   newPost, newComment, store, events>>

\* createPost that shows the post before the store has answered
createPostOptimistic ==
    /\ IF user = Null \/ trim(newPost.title) = <<>> \/ trim(newPost.content) = <<>>
       THEN /\ notice' = Toast("error", "Please fill in all required fields")
            /\ UNCHANGED <<calls, posts, filteredPosts, currentPage>>
       ELSE /\ calls' = Append(calls,
                   Call("createPost", "insert",
                        [title |-> newPost.title, content |-> newPost.content,
                         tags |-> TagsOf(newPost.tags),
                         is_anonymous |-> newPost.is_anonymous,
                         user_id |-> user.id],
                        "none"))
            /\ posts' = <<PostRow(calls'[Len(calls')].arg, 0)>> \o posts
            /\ Effect(posts', searchQuery, filterBy, sortBy)
            /\ UNCHANGED notice
    /\ lastOp' = Op("createPost", newPost)
    /\ UNCHANGED isLoading
    /\ UNCHANGED <<comments, searchQuery, sortBy, filterBy, user, selectedPost,
                   replyingTo, newPost, newComment, store, events>>

\* createPost, lines 193-210
createPost ==
    /\ IF user = Null \/ trim(newPost.title) = <<>> \/ trim(newPost.content) = <<>>
       THEN /\ notice' = Toast("error", "Please fill in all required fields")
            /\ UNCHANGED calls
       ELSE /\ calls' = Append(calls,
                   Call("createPost", "insert",
                        [title |-> newPost.title, content |-> newPost.content,
                         tags |-> TagsOf(newPost.tags),
                         is_anonymous |-> newPost.is_anonymous,
                         user_id |-> user.id],
                        "none"))
            /\ UNCHANGED notice
    /\ lastOp' = Op("createPost", newPost)
    /\ UNCHANGED isLoading
    /\ UNCHANGED <<posts, filteredPosts, comments, searchQuery, sortBy,
                   filterBy, currentPage, user, selectedPost, replyingTo,
                   newPost, newComment, store, events>>

\* createComment, lines 223-237; the handler keeps the comments map of the
\* render in which it was clicked
createComment(postId, parentId) ==
    /\ IF user = Null \/ trim(newComment) = <<>>
       THEN /\ notice' = Toast("error", "Please enter a comment")
            /\ UNCHANGED calls
       ELSE /\ calls' = Append(calls,
                   Call("createComment", "insert",
                        [post_id |-> postId, content |-> newComment,
                         user_id |-> user.id, parent_id |-> parentId],
                        [postId |-> postId, parentId |-> parentId,
                         comments |-> comments]))
            /\ UNCHANGED notice
    /\ lastOp' = Op("createComment", <<postId, parentId>>)
    /\ UNCHANGED isLoading
    /\ UNCHANGED <<posts, filteredPosts, comments, searchQuery, sortBy,
                   filterBy, currentPage, user, selectedPost, replyingTo,
                   newPost, newComment, store, events>>

\* the Post button under the selected post, lines 559-574
ClickPostComment ==
    /\ user # Null
    /\ \E post \in Rendered : post.id = selectedPost /\ createComment(post.id, NullId)

\* the Reply button with the arguments of createComment the other way round
ClickReplySwapped ==
    /\ user # Null
    /\ replyingTo \in RenderedComments
    /\ createComment(replyingTo, selectedPost)

\* the Reply button of the reply form, lines 332-347
ClickReply ==
    /\ user # Null
    /\ replyingTo \in RenderedComments
    /\ createComment(selectedPost, replyingTo)

\* toggleLike that sends the count it was given
toggleLikeSameCount(postId, currentLikes) ==
    /\ calls' = IF user = Null THEN calls
                ELSE Append(calls,
                         Call("toggleLike", "update",
                              [id |-> postId, column |-> "likes_count",
                               value |-> currentLikes],
                              "none"))
    /\ lastOp' = Op("toggleLike", <<postId, currentLikes>>)
    /\ UNCHANGED isLoading
    /\ UNCHANGED <<posts, filteredPosts, comments, searchQuery, sortBy,
                   filterBy, currentPage, user, selectedPost, replyingTo,
                   newPost, newComment, store, events, notice>>

\* toggleLike, lines 262-269
toggleLike(postId, currentLikes) ==
    /\ calls' = IF user = Null THEN calls
                ELSE Append(calls,
                         Call("toggleLike", "update",
                              [id |-> postId, column |-> "likes_count",
                               value |-> currentLikes + 1],
                              "none"))
    /\ lastOp' = Op("toggleLike", <<postId, currentLikes>>)
    /\ UNCHANGED isLoading
    /\ UNCHANGED <<posts, filteredPosts, comments, searchQuery, sortBy,
                   filterBy, currentPage, user, selectedPost, replyingTo,
                   newPost, newComment, store, events, notice>>

----------------------------------------------------------------------------
(* The store answers a call; the handler resumes after its await; the      *)
(* channel delivers an event.  Calls are answered, answers handled and     *)
(* events delivered in any order, events among themselves in the order     *)
(* the store sent them.                                                    *)

StoreAnswers(i, accepted) ==
    LET call == calls[i]
        Answered(res) == [calls EXCEPT ![i].res = res]
    IN  /\ call.fn # "checkUser"
        /\ call.res.status = "pending"
        /\ IF ~accepted
           THEN /\ calls' = Answered(Failed)
                /\ UNCHANGED <<store, events>>
           ELSE CASE call.fn = "fetchPosts" ->
                        /\ calls' = Answered(Ok(SelectPosts))
                        /\ UNCHANGED <<store, events>>
                  [] call.fn = "fetchComments" ->
                        /\ calls' = Answered(Ok(SelectComments(call.arg)))
                        /\ UNCHANGED <<store, events>>
                  [] call.fn = "createPost" ->
                        LET row == PostRow(call.arg, Len(store.posts) + 1)
                        IN  /\ store' = [store EXCEPT !.posts = Append(@, row)]
                            /\ events' = Append(events, PostsChannel(InsertEvent(row)))
                            /\ calls' = Answered(Ok("none"))
                  [] call.fn = "createComment" /\ call.at = "insert" ->
                        LET row == CommentRow(call.arg, Len(store.comments) + 1)
                        IN  /\ store' = [store EXCEPT !.comments = Append(@, row)]
                            /\ events' = Append(events, CommentsChannel(InsertEvent(row)))
                            /\ calls' = Answered(Ok("none"))
                  [] OTHER ->
                        LET rows == [k \in DOMAIN store.posts |->
                                        IF store.posts[k].id = call.arg.id
                                        THEN Patched(store.posts[k], call.arg)
                                        ELSE store.posts[k]]
                            hit == SelectSeq(rows, LAMBDA r : r.id = call.arg.id)
                        IN  /\ store' = [store EXCEPT !.posts = rows]
                            /\ events' = events \o
                                   [k \in DOMAIN hit |-> PostsChannel(UpdateEvent(hit[k]))]
                            /\ calls' = Answered(Ok("none"))
        /\ lastOp' = Op("storeAnswers", [fn |-> call.fn, at |-> call.at, accepted |-> accepted])
        /\ UNCHANGED isLoading
        /\ UNCHANGED <<posts, filteredPosts, comments, searchQuery, sortBy,
                       filterBy, currentPage, user, selectedPost, replyingTo,
                       newPost, newComment, notice>>

\* what lastOp keeps of a call that has resumed
Resumed(call) == [status |-> call.res.status, arg |-> call.arg, env |-> call.env]

\* fetchPosts with setIsLoading(false) at the end of the try block
fetchPostsResumesNoFinally(i) ==
    LET call == calls[i]
    IN  /\ call.fn = "fetchPosts"
        /\ call.res.status # "pending"
        /\ IF call.res.status = "error"
           THEN /\ notice' = Toast("error", "Failed to load posts")
                /\ UNCHANGED <<posts, filteredPosts, currentPage, isLoading>>
           ELSE /\ posts' = call.res.data
                /\ Effect(posts', searchQuery, filterBy, sortBy)
                /\ isLoading' = FALSE
                /\ UNCHANGED notice
        /\ calls' = Without(calls, i)
        /\ lastOp' = Op("fetchPostsResumes", Resumed(call))
        /\ UNCHANGED <<comments, searchQuery, sortBy, filterBy, user,
                       selectedPost, replyingTo, newPost, newComment, store,
                       events>>

\* fetchPosts after its await, lines 163-174
fetchPostsResumes(i) ==
    LET call == calls[i]
    IN  /\ call.fn = "fetchPosts"
        /\ call.res.status # "pending"
        /\ IF call.res.status = "error"
           THEN /\ notice' = Toast("error", "Failed to load posts")
                /\ UNCHANGED <<posts, filteredPosts, currentPage>>
           ELSE /\ posts' = call.res.data
                /\ Effect(posts', searchQuery, filterBy, sortBy)
                /\ UNCHANGED notice
        /\ calls' = Without(calls, i)
        /\ lastOp' = Op("fetchPostsResumes", Resumed(call))
        /\ isLoading' = FALSE
        /\ UNCHANGED <<comments, searchQuery, sortBy, filterBy, user,
                       selectedPost, replyingTo, newPost, newComment, store,
                       events>>

\* fetchComments after its await, lines 181-190
fetchCommentsResumes(i) ==
    LET call == calls[i]
    IN  /\ call.fn = "fetchComments"
        /\ call.res.status # "pending"
        /\ IF call.res.status = "error"
           THEN /\ notice' = Toast("error", "Failed to load comments")
                /\ UNCHANGED comments
           ELSE /\ comments' = Put(comments, call.arg, call.res.data)
                /\ UNCHANGED notice
        /\ calls' = Without(calls, i)
        /\ lastOp' = Op("fetchCommentsResumes", Resumed(call))
        /\ UNCHANGED isLoading
        /\ UNCHANGED <<posts, filteredPosts, searchQuery, sortBy, filterBy,
                       currentPage, user, selectedPost, replyingTo, newPost,
                       newComment, store, events>>

\* createPost after its await, lines 212-220
createPostResumes(i) ==
    LET call == calls[i]
    IN  /\ call.fn = "createPost"
        /\ call.res.status # "pending"
        /\ IF call.res.status = "error"
           THEN /\ notice' = Toast("error", "Failed to create post")
                /\ calls' = Without(calls, i)
                /\ UNCHANGED newPost
           ELSE /\ newPost' = EmptyForm
                /\ calls' = Append(Without(calls, i),
                                   FetchPostsCall([fn |-> call.fn, arg |-> call.arg]))
                /\ notice' = Toast("success", "Post created successfully!")
        /\ lastOp' = Op("createPostResumes", Resumed(call))
        /\ UNCHANGED isLoading
        /\ UNCHANGED <<posts, filteredPosts, comments, searchQuery, sortBy,
                       filterBy, currentPage, user, selectedPost, replyingTo,
                       newComment, store, events>>

\* toggleLike after its await, lines 271-276
toggleLikeResumes(i) ==
    LET call == calls[i]
    IN  /\ call.fn = "toggleLike"
        /\ call.res.status # "pending"
        /\ IF call.res.status = "error"
           THEN /\ notice' = Toast("error", "Failed to like post")
                /\ calls' = Without(calls, i)
           ELSE /\ calls' = Append(Without(calls, i),
                                   FetchPostsCall([fn |-> call.fn, arg |-> call.arg]))
                /\ UNCHANGED notice
        /\ lastOp' = Op("toggleLikeResumes", Resumed(call))
        /\ UNCHANGED isLoading
        /\ UNCHANGED <<posts, filteredPosts, comments, searchQuery, sortBy,
                       filterBy, currentPage, user, selectedPost, replyingTo,
                       newPost, newComment, store, events>>

\* createComment after its first await (lines 239-250) and after its second
\* (lines 252-255), whose answer it does not look at
createCommentResumes(i) ==
    LET call == calls[i]
        postId == call.env.postId
        parentId == call.env.parentId
        length == IF postId \in DOMAIN call.env.comments
                  THEN Len(call.env.comments[postId])
                  ELSE 0
    IN  /\ call.fn = "createComment"
        /\ call.res.status # "pending"
        /\ IF call.at = "insert" /\ call.res.status = "error"
           THEN /\ notice' = Toast("error", "Failed to add comment")
                /\ calls' = Without(calls, i)
                /\ UNCHANGED <<newComment, replyingTo>>
           ELSE IF call.at = "insert"
           THEN /\ newComment' = <<>>
                /\ replyingTo' = NullId
                /\ IF parentId = NullId
                   THEN /\ calls' = Append(
                               [calls EXCEPT ![i] =
                                   Call("createComment", "update",
                                        [id |-> postId, column |-> "comments_count",
                                         value |-> length + 1],
                                        call.env)],
                               FetchCommentsCall(postId))
                        /\ UNCHANGED notice
                   ELSE /\ calls' = Append(Without(calls, i), FetchCommentsCall(postId))
                        /\ notice' = Toast("success", "Reply added!")
           ELSE /\ calls' = Append(Without(calls, i),
                                   FetchPostsCall([fn |-> call.fn, arg |-> call.arg]))
                /\ notice' = Toast("success", "Comment added!")
                /\ UNCHANGED <<newComment, replyingTo>>
        /\ lastOp' = Op("createCommentResumes", Resumed(call))
        /\ UNCHANGED isLoading
        /\ UNCHANGED <<posts, filteredPosts, comments, searchQuery, sortBy,
                       filterBy, currentPage, user, selectedPost, newPost,
                       store, events>>

\* the websocket hands the oldest event to the callback of its channel
Deliver ==
    /\ events # <<>>
    /\ IF Head(events).table = "posts"
       THEN PostsChanges(Head(events).payload)
       ELSE CommentsChanges(Head(events).payload)
    /\ events' = Tail(events)
    /\ UNCHANGED <<selectedPost, replyingTo, newPost, newComment, store,
                   calls, notice, isLoading>>

----------------------------------------------------------------------------
(* A session on a store that holds one post with one comment under it      *)

FirstPost ==
    [PostRow([title |-> <<"a">>, content |-> <<"b">>, tags |-> <<>>,
              is_anonymous |-> FALSE, user_id |-> "u2"], 1)
        EXCEPT !.likes_count = 1, !.comments_count = 1,
               !.created_at = "2024-01-02", !.updated_at = "2024-01-02"]

FirstComment ==
    [CommentRow([post_id |-> FirstPost.id, content |-> <<"a">>,
                 user_id |-> "u2", parent_id |-> NullId], 1)
        EXCEPT !.created_at = "2024-01-03"]

\* after the mount effect (lines 65-72): checkUser and fetchPosts have
\* settled, the channels are subscribed
InitSession ==
    /\ store = [posts |-> <<FirstPost>>, comments |-> <<FirstComment>>]
    /\ posts = SelectPosts
    /\ comments = EmptyMap
    /\ InitView
    /\ InitIdle

\* what is typed into the title, the body and the comment box
Texts == { <<>>, <<" ">>, <<"a">> }

\* what is typed into the tags input
TagTexts == { <<>>, <<"b", ",", " ">> }

(* One thing at a time: the user types and clicks when no handler is      *)
(* suspended and no event is on its way; a call, its answer, the refetch   *)
(* and the events of the store still come in any order.                    *)

Quiet == calls = <<>> /\ events = <<>>

Stored == Len(store.posts) + Len(store.comments)

\* the forms hold what has been typed into them; the comment box is there
\* for a signed-in user once a post is selected and its comments fetched
InitForms ==
    /\ user \in {Null, [id |-> "u1"]}
    /\ store = [posts |-> <<FirstPost>>, comments |-> <<FirstComment>>]
    /\ posts = SelectPosts
    /\ \/ /\ selectedPost = NullId
          /\ comments = EmptyMap
          /\ newComment = <<>>
       \/ /\ selectedPost = FirstPost.id
          /\ comments = Put(EmptyMap, FirstPost.id, SelectComments(FirstPost.id))
          /\ newComment \in IF user = Null THEN {<<>>} ELSE Texts
    /\ replyingTo = NullId
    /\ newPost \in [title : Texts, content : Texts, tags : TagTexts,
                    is_anonymous : {FALSE}]
    /\ calls = <<>>
    /\ events = <<>>
    /\ notice = NoNotice
    /\ InitView

NextForms ==
    \/ \E post \in Rendered : Quiet /\ handlePostClick(post.id)
    \/ \E commentId \in RenderedComments : Quiet /\ SetReplyingTo(commentId)
    \/ Quiet /\ Stored < MaxStored /\ createPost
    \/ Quiet /\ Stored < MaxStored /\ ClickPostComment
    \/ Quiet /\ Stored < MaxStored /\ ClickReply
    \/ \E post \in Rendered :
           /\ Quiet
           /\ post.likes_count < MaxLikes
           /\ toggleLike(post.id, post.likes_count)
    \/ \E i \in DOMAIN calls : \E accepted \in BOOLEAN : StoreAnswers(i, accepted)
    \/ \E i \in DOMAIN calls : fetchPostsResumes(i)
    \/ \E i \in DOMAIN calls : fetchCommentsResumes(i)
    \/ \E i \in DOMAIN calls : createPostResumes(i)
    \/ \E i \in DOMAIN calls : createCommentResumes(i)
    \/ \E i \in DOMAIN calls : toggleLikeResumes(i)
    \/ Deliver

SpecForms == InitForms /\ [][NextForms]_vars

----------------------------------------------------------------------------
(* Likes pressed while earlier ones are still on their way *)

InitLikes ==
    /\ user = [id |-> "u1"]
    /\ InitSession

NextLikes ==
    \/ \E post \in Rendered :
           /\ Len(calls) + Len(events) < MaxCalls
           /\ post.likes_count < MaxLikes
           /\ toggleLike(post.id, post.likes_count)
    \/ \E i \in DOMAIN calls : \E accepted \in BOOLEAN : StoreAnswers(i, accepted)
    \/ \E i \in DOMAIN calls : toggleLikeResumes(i)
    \/ \E i \in DOMAIN calls : fetchPostsResumes(i)
    \/ Deliver

SpecLikes == InitLikes /\ [][NextLikes]_vars

----------------------------------------------------------------------------
(* Comments and replies of one session, one at a time, every call accepted *)

InitComments ==
    /\ user = [id |-> "u1"]
    /\ InitSession

NextComments ==
    \/ \E post \in Rendered : Quiet /\ handlePostClick(post.id)
    \/ \E text \in Texts : Quiet /\ SetNewComment(text)
    \/ \E commentId \in RenderedComments : Quiet /\ SetReplyingTo(commentId)
    \/ Quiet /\ Len(store.comments) < MaxComments /\ ClickPostComment
    \/ Quiet /\ Len(store.comments) < MaxComments /\ ClickReply
    \/ \E i \in DOMAIN calls : StoreAnswers(i, TRUE)
    \/ \E i \in DOMAIN calls : createCommentResumes(i)
    \/ \E i \in DOMAIN calls : fetchCommentsResumes(i)
    \/ \E i \in DOMAIN calls : fetchPostsResumes(i)
    \/ Deliver

SpecComments == InitComments /\ [][NextComments]_vars

----------------------------------------------------------------------------
(* The mount effect, lines 65-72: checkUser and fetchPosts have been       *)
(* called and are suspended at their awaits; the page shows the loading    *)
(* card (lines 360-370) until isLoading is false.                          *)

\* checkUser up to its await, line 154
CheckUserCall == Call("checkUser", "getUser", "auth", "none")

\* supabase.auth.getUser() answers: the user of the browser session, or
\* null when there is none or the call failed
AuthAnswers(i, who) ==
    /\ calls[i].fn = "checkUser"
    /\ calls[i].res.status = "pending"
    /\ calls' = [calls EXCEPT ![i].res = Ok(who)]
    /\ lastOp' = Op("authAnswers", who)
    /\ UNCHANGED <<posts, filteredPosts, comments, searchQuery, sortBy,
                   filterBy, currentPage, user, selectedPost, replyingTo,
                   newPost, newComment, store, events, notice, isLoading>>

\* checkUser after its await, line 155; user is no dependency of the effect
\* of lines 74-76, so the list is not recomputed
checkUserResumes(i) ==
    LET call == calls[i]
    IN  /\ call.fn = "checkUser"
        /\ call.res.status # "pending"
        /\ user' = call.res.data
        /\ calls' = Without(calls, i)
        /\ lastOp' = Op("checkUserResumes", Resumed(call))
        /\ UNCHANGED <<posts, filteredPosts, comments, searchQuery, sortBy,
                       filterBy, currentPage, selectedPost, replyingTo,
                       newPost, newComment, store, events, notice, isLoading>>

\* a post of the user of the browser session
OwnPost ==
    [PostRow([title |-> <<"b">>, content |-> <<"a">>, tags |-> <<>>,
              is_anonymous |-> FALSE, user_id |-> "u1"], 2)
        EXCEPT !.created_at = "2024-01-03", !.updated_at = "2024-01-03"]

Mounted == [fn |-> "mount", arg |-> "none"]

\* the first render: the state as constructed (lines 45-62), the two calls
\* of the mount effect on their way
InitMount ==
    /\ store = [posts |-> <<FirstPost, OwnPost>>, comments |-> <<FirstComment>>]
    /\ posts = <<>>
    /\ filteredPosts = <<>>
    /\ comments = EmptyMap
    /\ searchQuery = <<>>
    /\ sortBy = "newest"
    /\ filterBy = "all"
    /\ currentPage = 1
    /\ user = Null
    /\ selectedPost = NullId
    /\ replyingTo = NullId
    /\ newPost = EmptyForm
    /\ newComment = <<>>
    /\ calls = <<CheckUserCall, FetchPostsCall(Mounted)>>
    /\ events = <<>>
    /\ notice = NoNotice
    /\ isLoading = TRUE
    /\ lastOp = [op |-> "mount", arg |-> "none", page |-> 1, twice |-> FALSE]

\* the controls of the list are on the page once the loading card is gone
NextMount ==
    \/ \E i \in DOMAIN calls : \E who \in {Null, [id |-> "u1"]} : AuthAnswers(i, who)
    \/ \E i \in DOMAIN calls : \E accepted \in BOOLEAN : StoreAnswers(i, accepted)
    \/ \E i \in DOMAIN calls : checkUserResumes(i)
    \/ \E i \in DOMAIN calls : fetchPostsResumes(i)
    \/ \E f \in FilterOption : ~isLoading /\ SetFilterBy(f)
    \/ \E s \in SortOption : ~isLoading /\ SetSortBy(s)

SpecMount == InitMount /\ [][NextMount]_vars

\* a settled promise resumes its handler: the continuation of fetchPosts is
\* a microtask the event loop runs; it changes the cache, the notice or the
\* loading flag
SpecMountLive ==
    SpecMount /\ WF_<<posts, notice, isLoading>>(\E i \in DOMAIN calls : fetchPostsResumes(i))

----------------------------------------------------------------------------
(* A post created and likes pressed while earlier calls, refetches and     *)
(* events are still on their way                                           *)

InitRaces ==
    /\ user = [id |-> "u1"]
    /\ store = [posts |-> <<FirstPost>>, comments |-> <<FirstComment>>]
    /\ posts = SelectPosts
    /\ comments = EmptyMap
    /\ InitView
    /\ selectedPost = NullId
    /\ replyingTo = NullId
    /\ newPost = [title |-> <<"a">>, content |-> <<"a">>, tags |-> <<>>,
                  is_anonymous |-> FALSE]
    /\ newComment = <<>>
    /\ calls = <<>>
    /\ events = <<>>
    /\ notice = NoNotice

NextRaces ==
    \/ /\ Len(calls) + Len(events) < MaxCalls
       /\ Stored < MaxStored
       /\ createPost
    \/ \E post \in Rendered :
           /\ Len(calls) + Len(events) < MaxCalls
           /\ post.likes_count < MaxLikes
           /\ toggleLike(post.id, post.likes_count)
    \/ \E i \in DOMAIN calls : StoreAnswers(i, TRUE)
    \/ \E i \in DOMAIN calls : createPostResumes(i)
    \/ \E i \in DOMAIN calls : toggleLikeResumes(i)
    \/ \E i \in DOMAIN calls : fetchPostsResumes(i)
    \/ Deliver

SpecRaces == InitRaces /\ [][NextRaces]_vars

----------------------------------------------------------------------------
(* Comment buckets while another session comments on the post: its insert  *)
(* reaches this session as an event of the comments channel only           *)

\* the store accepts the insert of a top-level comment sent by the
\* createComment of another session
OtherSessionComments(postId) ==
    LET row == CommentRow([post_id |-> postId, content |-> <<"b">>,
                           user_id |-> "u2", parent_id |-> NullId],
                          Len(store.comments) + 1)
    IN  /\ store' = [store EXCEPT !.comments = Append(@, row)]
        /\ events' = Append(events, CommentsChannel(InsertEvent(row)))
        /\ lastOp' = Op("otherSessionComments", postId)
        /\ UNCHANGED <<posts, filteredPosts, comments, searchQuery, sortBy,
                       filterBy, currentPage, user, selectedPost, replyingTo,
                       newPost, newComment, calls, notice, isLoading>>

InitBuckets ==
    /\ user = [id |-> "u1"]
    /\ InitSession

NextBuckets ==
    \/ \E post \in Rendered :
           Len(calls) + Len(events) < MaxCalls /\ handlePostClick(post.id)
    \/ \E r \in Range(store.posts) :
           /\ Len(calls) + Len(events) < MaxCalls
           /\ Len(store.comments) < MaxComments
           /\ OtherSessionComments(r.id)
    \/ \E i \in DOMAIN calls : StoreAnswers(i, TRUE)
    \/ \E i \in DOMAIN calls : fetchCommentsResumes(i)
    \/ Deliver

SpecBuckets == InitBuckets /\ [][NextBuckets]_vars

----------------------------------------------------------------------------
(* Vocabulary of the session properties *)

\* the stored row of a post
Row(id) == CHOOSE r \in Range(store.posts) : r.id = id

\* p is a row the store has made of the fields of a create call
MadeOf(p, fields) ==
    /\ p.id # FirstPost.id
    /\ p.title = fields.title
    /\ p.content = fields.content
    /\ p.tags = fields.tags
    /\ p.user_id = fields.user_id

\* nothing but blanks
Blank(text) == \A i \in DOMAIN text : text[i] = " "

\* the step answers a call of fn that was waiting for the store, accepting it
Accepts(i, fn) ==
    /\ lastOp'.op = "storeAnswers"
    /\ Len(calls') = Len(calls)
    /\ calls[i].fn = fn
    /\ calls[i].res.status = "pending"
    /\ calls'[i].res.status = "ok"

(* C13: post creation is confirm-then-apply: the new post is never in the  *)
(* posts cache before the create call has returned successfully to its     *)
(* handler, and when the call fails the cache is left as it was and a      *)
(* failure notice is raised.                                               *)
C13_ConfirmThenApply ==
    /\ [](\A i \in DOMAIN calls :
             calls[i].fn = "createPost" =>
                 ~\E p \in Range(posts) : MadeOf(p, calls[i].arg))
    /\ [][(lastOp'.op = "createPostResumes" /\ lastOp'.arg.status = "error") =>
             /\ posts' = posts
             /\ notice' = Toast("error", "Failed to create post")]_vars

(* C13 as amended: createPost itself never changes the posts cache: it     *)
(* asks for a refetch once the create call has returned successfully; the  *)
(* new post is never in the cache before the store has accepted the create *)
(* (the store's Insert event may bring it before the handler has resumed), *)
(* and when the call fails the cache is left as it was and a failure       *)
(* notice is raised.                                                       *)
C13_CreateNeverAhead ==
    /\ [](Ids(posts) \subseteq Ids(store.posts))
    /\ [][/\ lastOp'.op \in {"createPost", "createPostResumes"} => posts' = posts
          /\ (lastOp'.op = "createPostResumes" /\ lastOp'.arg.status = "ok") =>
                 \E i \in DOMAIN calls' :
                     calls'[i].fn = "fetchPosts" /\ calls'[i].env.fn = "createPost"
          /\ (lastOp'.op = "createPostResumes" /\ lastOp'.arg.status = "error") =>
                 /\ calls' = Without(calls, CHOOSE i \in DOMAIN calls :
                                                calls[i].fn = "createPost")
                 /\ notice' = Toast("error", "Failed to create post")]_vars

\* the Insert event has brought the new post while createPost is suspended
C13_Witness ==
    \E i \in DOMAIN calls :
        /\ calls[i].fn = "createPost"
        /\ calls[i].res.status = "ok"
        /\ \E p \in Range(posts) : MadeOf(p, calls[i].arg)
        /\ Len(posts) = 2

TopLevelCount(postId) ==
    Cardinality({i \in DOMAIN store.comments :
                    /\ store.comments[i].post_id = postId
                    /\ store.comments[i].parent_id = NullId})

(* C16: after any sequence of successful comment and reply creations of    *)
(* one session, nothing else going on, the stored comment count of the     *)
(* post is the number of its top-level comments.                           *)
C16_CountIsTopLevel ==
    Quiet => \A r \in Range(store.posts) : r.comments_count = TopLevelCount(r.id)

(* C17: with no user signed in, create post, create comment or reply, and  *)
(* like are refused in the client: no call goes to the store and neither   *)
(* the posts cache nor the comments cache changes.                         *)
C17_SignedOutRefused ==
    [][(user = Null /\ lastOp'.op \in {"createPost", "createComment", "toggleLike"}) =>
           /\ calls' = calls
           /\ store' = store
           /\ events' = events
           /\ posts' = posts
           /\ comments' = comments]_vars

\* signed out, a filled-in post was refused, then the like button pressed
C17_Witness ==
    /\ user = Null
    /\ ~Blank(newPost.title) /\ ~Blank(newPost.content)
    /\ notice = Toast("error", "Please fill in all required fields")
    /\ lastOp.op = "toggleLike"
    /\ Len(store.posts) = 1
    /\ \A i \in DOMAIN calls : calls[i].fn = "fetchComments"

(* C18: malformed input never reaches the store: a post whose title or     *)
(* body is empty or blank, and a comment or reply whose text is empty or   *)
(* blank, is rejected in the client with a notice; no call goes to the     *)
(* store, the caches and the forms stay as they are.                       *)
C18_MalformedRefused ==
    [][(\/ lastOp'.op = "createPost" /\ (Blank(newPost.title) \/ Blank(newPost.content))
        \/ lastOp'.op = "createComment" /\ Blank(newComment)) =>
           /\ notice'.kind = "error"
           /\ calls' = calls
           /\ store' = store
           /\ posts' = posts
           /\ comments' = comments
           /\ newPost' = newPost
           /\ newComment' = newComment]_vars

\* signed in, a blank comment under a post with a blank title was refused
C18_Witness ==
    /\ user # Null
    /\ lastOp.op = "createComment"
    /\ newComment = <<" ">>
    /\ newPost.title = <<" ">>
    /\ notice = Toast("error", "Please enter a comment")
    /\ Quiet
    /\ Stored = 2

----------------------------------------------------------------------------
(* Races, failures and replies *)

\* the call the step has just sent
Sent == calls'[Len(calls')]

\* the step is a click that has sent a reply to the store
SendsReply ==
    /\ lastOp'.op = "createComment"
    /\ Len(calls') = Len(calls) + 1
    /\ Sent.arg.parent_id # NullId

(* C21: whichever of a refetch and a push event for a post comes last, the *)
(* cache keeps the version updated later: no step replaces a cached post   *)
(* by a version of it whose update timestamp is earlier.                   *)
C21_LaterVersionKept ==
    [][\A i \in DOMAIN posts : \A j \in DOMAIN posts' :
           posts'[j].id = posts[i].id =>
               getTime(posts'[j].updated_at) >= getTime(posts[i].updated_at)]_vars

\* the handler whose continuation the last step was
Resumer ==
    CASE lastOp.op = "fetchPostsResumes" -> "fetchPosts"
      [] lastOp.op = "fetchCommentsResumes" -> "fetchComments"
      [] lastOp.op = "createPostResumes" -> "createPost"
      [] lastOp.op = "createCommentResumes" -> "createComment"
      [] lastOp.op = "toggleLikeResumes" -> "toggleLike"
      [] OTHER -> "none"

(* C22: every failure of a store call (posts list, comments list, create   *)
(* post, create comment, like update, comment count update) raises a       *)
(* failure notice and the handler sends no call again: once a handler has  *)
(* resumed from a failed call, the notice is a failure notice, never a     *)
(* success notice, and no call of that handler is on its way.              *)
C22_FailuresSurfaced ==
    (Resumer # "none" /\ lastOp.arg.status = "error") =>
        /\ notice.kind = "error"
        /\ \A i \in DOMAIN calls : calls[i].fn # Resumer

OnePerId(seq) == \A i, j \in DOMAIN seq : seq[i].id = seq[j].id => i = j

(* C24: under any interleaving of create post, create comment and like     *)
(* with the completions of the refetches and the push events, each         *)
(* delivered once, the posts cache holds at most one entry per post id and *)
(* every comment bucket at most one entry per comment id.                  *)
C24_OneEntryPerId ==
    /\ OnePerId(posts)
    /\ \A k \in DOMAIN comments : OnePerId(comments[k])

(* C25: no reply to a reply can be created: the reply button is offered   *)
(* on top-level comments only, so every reply sent by createComment names  *)
(* a comment that organizeComments takes as top-level, and no comment      *)
(* created in this session is missing from the tree built of its bucket.   *)
C25_RepliesOneLevel ==
    /\ [][SendsReply =>
             \E t \in Range(organizeComments(comments[selectedPost])) :
                 t.id = Sent.arg.parent_id]_vars
    /\ [](\A k \in DOMAIN comments : \A c \in Range(comments[k]) :
             c.user_id = "u1" =>
                 c.id \in Ids(Flatten(organizeComments(comments[k]))))

\* the tree of the first post shows a reply of this session under a
\* top-level comment
C25_Witness ==
    /\ FirstPost.id \in DOMAIN comments
    /\ \E t \in Range(organizeComments(comments[FirstPost.id])) :
           \E k \in DOMAIN t.replies : t.replies[k].user_id = "u1"

(* C26: the displayed list is the pipeline applied to the current posts,   *)
(* query, filter mode, sort mode and user (the effect of lines 74-76 has   *)
(* run in every state of the model); in particular, when the filter of the *)
(* user's own posts is chosen before the authentication check has          *)
(* resolved, the list is recomputed for the user once it arrives.          *)
C26_ListIsPipeline ==
    filteredPosts = applyFiltersAndSort(posts, searchQuery, filterBy, sortBy, user)

(* C27: in every reachable state 1 <= currentPage <= max(1, totalPages),   *)
(* after any page navigation, any change of query, filter or sort, and any *)
(* change of the posts list that shrinks or grows it.                      *)
C27_PageInRange ==
    /\ currentPage >= 1
    /\ currentPage <= Max(1, totalPages)

\* a Delete event found the view on the third page of three and left two
\* pages
C27_Witness ==
    /\ lastOp.op = "postsEvent"
    /\ lastOp.arg.eventType = "DELETE"
    /\ lastOp.page = 3
    /\ totalPages = 2
    /\ currentPage = 1

(* C28: a like never lowers the stored like count of a post: whatever the  *)
(* interleaving of likes, refreshes and push events, every like the store  *)
(* accepts writes a value that is at least the value the store held just   *)
(* before.                                                                 *)
C28_LikeNeverLowers ==
    [][\A i \in DOMAIN calls :
           Accepts(i, "toggleLike") =>
               calls[i].arg.value >= Row(calls[i].arg.id).likes_count]_vars

(* C29: once a post is selected and every comment fetch has settled, with  *)
(* success, and no call or event is on its way, the bucket of the post     *)
(* holds every comment the store holds for it, also when an Insert event   *)
(* for the post had arrived before the post was first selected.            *)
C29_BucketComplete ==
    (Quiet /\ selectedPost # NullId) =>
        /\ selectedPost \in DOMAIN comments
        /\ \A c \in Range(SelectComments(selectedPost)) :
               c \in Range(comments[selectedPost])

\* the first fetch of the mount effect has been answered
FirstFetchResolved ==
    \E i \in DOMAIN calls :
        /\ calls[i].fn = "fetchPosts"
        /\ calls[i].env = Mounted
        /\ calls[i].res.status # "pending"

(* C30: the forum leaves its loading state: once the first fetch of the    *)
(* posts has resolved, with data or with an error, isLoading becomes false *)
(* and is never true again, and a failed fetch leaves the posts cache as   *)
(* it was: empty, as constructed.                                          *)
C30_LoadingEnds ==
    /\ FirstFetchResolved ~> [](~isLoading)
    /\ [](~isLoading => [](~isLoading))
    /\ []((lastOp.op = "fetchPostsResumes" /\ lastOp.arg.status = "error") =>
             /\ posts = <<>>
             /\ ~isLoading)

\* the first fetch has failed: the loading card is gone, the cache is empty
\* as before, the failure notice is up
C30_Witness ==
    /\ lastOp.op = "fetchPostsResumes"
    /\ lastOp.arg.status = "error"
    /\ lastOp.arg.env = Mounted
    /\ ~isLoading
    /\ posts = <<>>
    /\ notice = Toast("error", "Failed to load posts")

====
